---- MODULE Spec2Model ----
(***************************************************************************)
(* A model of streamlit_app.py: process_csv, the row transformer that      *)
(* expands every appointment row into one record per client, and main_app, *)
(* which hands the uploaded bytes to it and offers the result for download.*)
(*                                                                         *)
(* Cell values are Python strings, modelled as sequences of one-character  *)
(* strings, so that strip, split, join, lower, strptime and strftime are   *)
(* computed as the code computes them.  Column names are atoms.            *)
(***************************************************************************)
EXTENDS Integers, Sequences, FiniteSets, TLC

(***************************************************************************)
(* Python values and str methods                                           *)
(***************************************************************************)

\* Python's None (csv.DictReader's restval for a short line): no str.
None == <<"None">>

\* str.isspace for one character
IsSpace(c) == c \in {" ", "\t", "\n", "\r"}

LowerLetters == <<"a","b","c","d","e","f","g","h","i","j","k","l","m","n","o","p","q","r","s","t","u","v","w","x","y","z">>
UpperLetters == <<"A","B","C","D","E","F","G","H","I","J","K","L","M","N","O","P","Q","R","S","T","U","V","W","X","Y","Z">>
Digits == <<"0","1","2","3","4","5","6","7","8","9">>

IsDigit(c) == \E k \in 1..10 : Digits[k] = c
DigitVal(c) == (CHOOSE k \in 1..10 : Digits[k] = c) - 1

LowerChar(c) ==
    IF \E k \in 1..26 : UpperLetters[k] = c
    THEN LowerLetters[CHOOSE k \in 1..26 : UpperLetters[k] = c]
    ELSE c

UpperChar(c) ==
    IF \E k \in 1..26 : LowerLetters[k] = c
    THEN UpperLetters[CHOOSE k \in 1..26 : LowerLetters[k] = c]
    ELSE c

\* str.lower, str.upper
lower(s) == [k \in 1..Len(s) |-> LowerChar(s[k])]
upper(s) == [k \in 1..Len(s) |-> UpperChar(s[k])]

\* s[a:b] with 0-based Python bounds already clipped to 0..len(s)
Slice(s, a, b) == SubSeq(s, a + 1, b)

\* str.strip()
strip(s) ==
    LET NonSpace == {k \in 1..Len(s) : ~IsSpace(s[k])}
    IN  IF NonSpace = {} THEN << >>
        ELSE SubSeq(s, CHOOSE k \in NonSpace : \A j \in NonSpace : k <= j,
                       CHOOSE k \in NonSpace : \A j \in NonSpace : k >= j)

\* s.startswith(sub) at 1-based position p
MatchAt(s, sub, p) ==
    /\ p + Len(sub) - 1 <= Len(s)
    /\ \A k \in 1..Len(sub) : s[p + k - 1] = sub[k]

\* s.find(sub) as a 1-based position, 0 when sub does not occur
find(s, sub) ==
    LET Hits == {p \in 1..Len(s) : MatchAt(s, sub, p)}
    IN  IF Hits = {} THEN 0 ELSE CHOOSE p \in Hits : \A q \in Hits : p <= q

\* sub in s
contains(s, sub) == find(s, sub) # 0

\* s.endswith(suffix)
endswith(s, suffix) ==
    /\ Len(suffix) <= Len(s)
    /\ SubSeq(s, Len(s) - Len(suffix) + 1, Len(s)) = suffix

\* s.split(sep), sep a non-empty str
RECURSIVE split(_, _)
\* p is the position of the first sep in s, 0 when there is none
split_at(s, sep, p) ==
    IF p = 0 THEN <<s>>
    ELSE <<SubSeq(s, 1, p - 1)>> \o split(SubSeq(s, p + Len(sep), Len(s)), sep)
split(s, sep) == split_at(s, sep, find(s, sep))

\* s.split(): the maximal runs of non-whitespace characters
RECURSIVE split_ws(_)
\* t holds no outer whitespace; n is the length of its first word
split_stripped(t, n) ==
    IF t = << >> THEN << >>
    ELSE IF n = Len(t) THEN <<t>>
    ELSE <<SubSeq(t, 1, n)>> \o split_ws(SubSeq(t, n + 1, Len(t)))
RECURSIVE WordRun(_, _)
WordRun(s, p) == IF p > Len(s) \/ IsSpace(s[p]) THEN 0 ELSE 1 + WordRun(s, p + 1)
first_word(t) == split_stripped(t, WordRun(t, 1))
split_ws(s) == first_word(strip(s))

\* sep.join(parts)
RECURSIVE join(_, _)
join(sep, parts) ==
    IF parts = << >> THEN << >>
    ELSE IF Len(parts) = 1 THEN parts[1]
    ELSE parts[1] \o sep \o join(sep, Tail(parts))

\* mapping.get(key, default) for a mapping held as a set of <<key, value>> pairs
dict_get(mapping, key, default) ==
    IF \E kv \in mapping : kv[1] = key
    THEN (CHOOSE kv \in mapping : kv[1] = key)[2]
    ELSE default

Range(f) == {f[k] : k \in DOMAIN f}

(***************************************************************************)
(* The constant tables                                                     *)
(***************************************************************************)

cpt_code_mapping == {
    <<<<"T","e","e","n"," ","G","r","o","u","p"," ","S","e","s","s","i","o","n">>, <<"9","0","8","5","3">>>>,
    <<<<"P","a","r","e","n","t"," ","G","r","o","u","p">>, <<"9","0","8","5","3">>>>,
    <<<<"I","n","d","i","v","i","d","u","a","l"," ","T","h","e","r","a","p","y"," ","S","e","s","s","i","o","n"," ","-"," ","6","0"," ","m","i","n","u","t","e","s">>, <<"9","0","8","3","7">>>>,
    <<<<"M","e","n","t","o","r"," ","S","e","s","s","i","o","n"," ","-"," ","4","5"," ","m","i","n","u","t","e","s">>, <<"H","0","0","3","8"," ","-"," ","3">>>>,
    <<<<"I","n","d","i","v","i","d","u","a","l"," ","T","h","e","r","a","p","y"," ","S","e","s","s","i","o","n"," ","-"," ","4","5"," ","m","i","n","u","t","e","s">>, <<"9","0","8","3","4">>>>,
    <<<<"C","a","s","e"," ","C","o","n","s","u","l","t","a","t","i","o","n">>, <<"9","0","8","4","6",","," ","9","0","8","3","2">>>>,
    <<<<"P","a","r","e","n","t"," ","C","o","a","c","h","i","n","g"," ","S","e","s","s","i","o","n">>, <<"9","0","8","4","6">>>>,
    <<<<"F","a","m","i","l","y"," ","T","h","e","r","a","p","y"," ","S","e","s","s","i","o","n">>, <<"9","0","8","4","7">>>>,
    <<<<"E","v","a","l","u","a","t","i","o","n"," ","S","e","s","s","i","o","n">>, <<"9","0","7","9","1">>>>,
    <<<<"P","s","y","c","h","o","l","o","g","i","c","a","l"," ","A","s","s","e","s","s","m","e","n","t">>, <<"9","0","7","9","1">>>>,
    <<<<"P","a","r","e","n","t"," ","C","o","a","c","h","i","n","g"," ","S","e","s","s","i","o","n"," ","-"," ","3","0"," ","m","i","n","u","t","e","s">>, <<"9","0","8","4","6">>>>,
    <<<<"I","n","d","i","v","i","d","u","a","l"," ","T","h","e","r","a","p","y"," ","S","e","s","s","i","o","n"," ","3","0"," ","m","i","n","u","t","e","s">>, <<"9","0","8","3","2">>>>,
    <<<<"I","n","d","i","v","i","d","u","a","l"," ","T","h","e","r","a","p","y"," ","S","e","s","s","i","o","n">>, <<"9","0","8","3","2">>>>,
    <<<<"M","e","n","t","o","r"," ","S","e","s","s","i","o","n"," ","-"," ","3","0"," ","m","i","n","u","t","e","s">>, <<"H","0","0","3","8"," ","-"," ","2">>>>,
    <<<<"M","e","n","t","o","r"," ","S","e","s","s","i","o","n"," ","-"," ","6","0"," ","m","i","n","u","t","e","s">>, <<"H","0","0","3","8"," ","-"," ","4">>>>,
    <<<<"P","a","r","e","n","t"," ","C","o","a","c","h","i","n","g"," ","S","e","s","s","i","o","n"," ","-"," ","G","r","o","u","p"," ","A","p","p","o","i","n","t","m","e","n","t">>, <<"9","0","8","4","6">>>>,
    <<<<"H","e","a","l","t","h"," ","a","n","d"," ","W","e","l","l","n","e","s","s"," ","S","e","s","s","i","o","n">>, <<"H","2","0","1","4">>>>,
    <<<<"O","n","b","o","a","r","d","i","n","g"," ","A","p","p","o","i","n","t","m","e","n","t">>, <<"9","0","7","9","1">>>>,
    <<<<"I","n","-","S","c","h","o","o","l"," ","S","e","s","s","i","o","n">>, <<"9","0","8","3","7">>>>,
    <<<<"F","a","m","i","l","y"," ","E","v","a","l","u","a","t","i","o","n"," ","S","e","s","s","i","o","n">>, <<"9","0","7","9","1">>>>,
    <<<<"I","n","d","i","v","i","d","u","a","l"," ","T","h","e","r","a","p","y"," ","S","e","s","s","i","o","n"," "," ","3","0"," ","m","i","n","u","t","e","s">>, <<"9","0","8","3","2">>>>,
    <<<<"T","e","e","n"," ","E","v","a","l","u","a","t","i","o","n"," ","S","e","s","s","i","o","n">>, <<"9","0","7","9","1">>>> }

\* output column -> input column, as <<key, value>> pairs
header_mapping == {
    <<"Date Fixed", "Date">>,
    <<"Name", "Client Name">>,
    <<"Unique ID", "Unique ID">>,
    <<"Group Attendance", "Group Attendance">>,
    <<"Provider", "Provider">>,
    <<"Status", "Status">>,
    <<"Appointment Type", "Appointment Type">>,
    <<"Chart Note Written", "Chart Note Written">>,
    <<"Missing Info", "Missing Info">>,
    <<"Appointment ID", "Appointment ID">>,
    <<"CPT Code", "CPT Code">> }

spreadsheet_headers == <<
    "Billed", "CMS1500", "Family ID", "Unique ID", "Appointment ID", "Date Fixed",
    "Week", "Month", "Appointment Type", "CPT Code", "Provider", "Status",
    "Billing Status", "Name", "Group Attendance", "Chart Note Written",
    "Missing Info" >>

(***************************************************************************)
(* datetime: strptime, strftime, weekday, timedelta                        *)
(***************************************************************************)

\* The value of the digit string s[a..b]
RECURSIVE DigitsVal(_, _, _)
DigitsVal(s, a, b) ==
    IF b < a THEN 0 ELSE DigitsVal(s, a, b - 1) * 10 + DigitVal(s[b])

\* The decimal digits of n >= 0, without padding
RECURSIVE str_int(_)
str_int(n) ==
    IF n < 10 THEN <<Digits[n + 1]>> ELSE str_int(n \div 10) \o <<Digits[(n % 10) + 1]>>

\* n as two digits, zero padded (%m %d %H %M %y)
pad2(n) == <<Digits[(n \div 10) + 1], Digits[(n % 10) + 1]>>

IsLeap(y) == (y % 4 = 0 /\ y % 100 # 0) \/ y % 400 = 0

DaysInMonth(y, m) ==
    IF m = 2 THEN (IF IsLeap(y) THEN 29 ELSE 28)
    ELSE IF m \in {4, 6, 9, 11} THEN 30 ELSE 31

\* Days before 1 January of year y, counted from 1 January of year 1
DaysBeforeYear(y) ==
    LET p == y - 1 IN p * 365 + p \div 4 - p \div 100 + p \div 400

RECURSIVE DaysBeforeMonth(_, _)
DaysBeforeMonth(y, m) ==
    IF m = 1 THEN 0 ELSE DaysBeforeMonth(y, m - 1) + DaysInMonth(y, m - 1)

\* date.toordinal(): 1 for 0001-01-01
toordinal(y, m, d) == DaysBeforeYear(y) + DaysBeforeMonth(y, m) + d

\* date.weekday(): Monday is 0
weekday(y, m, d) == (toordinal(y, m, d) + 6) % 7

\* The year that holds ordinal n
YearOfOrdinal(n) ==
    CHOOSE yy \in 1..9999 : DaysBeforeYear(yy) < n /\ n <= DaysBeforeYear(yy + 1)

\* The month of year y that holds the r-th day of the year
MonthOfYearDay(y, r) ==
    CHOOSE mm \in 1..12 :
        DaysBeforeMonth(y, mm) < r /\ r <= DaysBeforeMonth(y, mm) + DaysInMonth(y, mm)

DateOfYearDay(y, m, r) == [year |-> y, month |-> m, day |-> r - DaysBeforeMonth(y, m)]
DateInYear(y, r) == DateOfYearDay(y, MonthOfYearDay(y, r), r)

\* date.fromordinal(n), n >= 1
fromordinal(n) == DateInYear(YearOfOrdinal(n), n - DaysBeforeYear(YearOfOrdinal(n)))

MonthNames == <<
    <<"J","a","n","u","a","r","y">>, <<"F","e","b","r","u","a","r","y">>, <<"M","a","r","c","h">>, <<"A","p","r","i","l">>, <<"M","a","y">>, <<"J","u","n","e">>, <<"J","u","l","y">>,
    <<"A","u","g","u","s","t">>, <<"S","e","p","t","e","m","b","e","r">>, <<"O","c","t","o","b","e","r">>, <<"N","o","v","e","m","b","e","r">>, <<"D","e","c","e","m","b","e","r">> >>

\* A strptime that raised ValueError
ValueError == [ok |-> FALSE, year |-> 0, month |-> 0, day |-> 0, hour |-> 0, minute |-> 0]

\* The number of digits from 1-based position p on, at most cap
RECURSIVE DigitRun(_, _, _)
DigitRun(s, p, cap) ==
    IF cap = 0 \/ p > Len(s) \/ ~IsDigit(s[p]) THEN 0 ELSE 1 + DigitRun(s, p + 1, cap - 1)

\* The number of whitespace characters from 1-based position p on
RECURSIVE SpaceRun(_, _)
SpaceRun(s, p) ==
    IF p > Len(s) \/ ~IsSpace(s[p]) THEN 0 ELSE 1 + SpaceRun(s, p + 1)

\* The formats of lines 131, 139 and 151, token by token
FormatWithZone == <<"%Y", "-", "%m", "-", "%d", " ", "%H", ":", "%M", ":", "%S", " ", "%Z">>
FormatNoZone == <<"%Y", "-", "%m", "-", "%d", " ", "%H", ":", "%M", ":", "%S">>
FormatDate == <<"%Y", "-", "%m", "-", "%d">>

\* The digits a numeric directive takes and the values its regex admits.  Every
\* numeric directive of the three formats is followed by a non-digit literal, by
\* whitespace or by the end, so the alternatives of _strptime's regex reduce to
\* the longest run of digits within these limits.
DirectiveRange(directive) ==
    CASE directive = "%Y" -> [least |-> 4, most |-> 4, lo |-> 0, hi |-> 9999]
      [] directive = "%m" -> [least |-> 1, most |-> 2, lo |-> 1, hi |-> 12]
      [] directive = "%d" -> [least |-> 1, most |-> 2, lo |-> 1, hi |-> 31]
      [] directive = "%H" -> [least |-> 1, most |-> 2, lo |-> 0, hi |-> 23]
      [] directive = "%M" -> [least |-> 1, most |-> 2, lo |-> 0, hi |-> 59]
      [] directive = "%S" -> [least |-> 1, most |-> 2, lo |-> 0, hi |-> 61]

NoMatch == [ok |-> FALSE, vals |-> << >>]

\* A match of the rest of the format, after a directive that gave value v
Matched(v, rest) == [ok |-> rest.ok, vals |-> <<v>> \o rest.vals]

\* The n digits at position p as a directive of range r
DirectiveValue(s, p, n, r) ==
    [ok |-> n >= r.least /\ DigitsVal(s, p, p + n - 1) >= r.lo
                         /\ DigitsVal(s, p, p + n - 1) <= r.hi,
     pos |-> p + n, val |-> DigitsVal(s, p, p + n - 1)]

\* The longest of the zone names that s holds at position p, << >> when none
LongestZone(s, p, zones) ==
    IF \E z \in zones : MatchAt(lower(s), z, p)
    THEN CHOOSE z \in zones :
             /\ MatchAt(lower(s), z, p)
             /\ \A y \in zones : MatchAt(lower(s), y, p) => Len(y) <= Len(z)
    ELSE << >>

\* _strptime's regex match of s from position p against the tokens fmt[k..]:
\* the values of the numeric directives in order.  A space of the format
\* matches one or more whitespace characters, %Z one of zones (lower case,
\* the regex ignores case), and the whole string must be consumed.
RECURSIVE match_format(_, _, _, _, _)
AfterDirective(d, s, fmt, k, zones) ==
    IF d.ok THEN Matched(d.val, match_format(s, fmt, k + 1, d.pos, zones)) ELSE NoMatch
AfterSpaces(n, s, fmt, k, p, zones) ==
    IF n >= 1 THEN match_format(s, fmt, k + 1, p + n, zones) ELSE NoMatch
AfterZone(z, s, fmt, k, p, zones) ==
    IF z # << >> THEN match_format(s, fmt, k + 1, p + Len(z), zones) ELSE NoMatch
match_format(s, fmt, k, p, zones) ==
    IF k > Len(fmt) THEN [ok |-> p = Len(s) + 1, vals |-> << >>]
    ELSE IF fmt[k] = " " THEN AfterSpaces(SpaceRun(s, p), s, fmt, k, p, zones)
    ELSE IF fmt[k] = "%Z" THEN AfterZone(LongestZone(s, p, zones), s, fmt, k, p, zones)
    ELSE IF fmt[k] \in {"-", ":"}
    THEN IF p <= Len(s) /\ s[p] = fmt[k]
         THEN match_format(s, fmt, k + 1, p + 1, zones) ELSE NoMatch
    ELSE AfterDirective(
             DirectiveValue(s, p, DigitRun(s, p, DirectiveRange(fmt[k]).most),
                            DirectiveRange(fmt[k])),
             s, fmt, k, zones)

\* The datetime of the matched values v (year, month, day and, if the format
\* has them, hour, minute, second) under the datetime constructor's range checks
make_datetime(m) ==
    IF /\ m.ok
       /\ m.vals[1] >= 1
       /\ m.vals[3] <= DaysInMonth(m.vals[1], m.vals[2])
       /\ (Len(m.vals) = 6 => m.vals[6] <= 59)
    THEN [ok |-> TRUE, year |-> m.vals[1], month |-> m.vals[2], day |-> m.vals[3],
          hour |-> IF Len(m.vals) = 6 THEN m.vals[4] ELSE 0,
          minute |-> IF Len(m.vals) = 6 THEN m.vals[5] ELSE 0]
    ELSE ValueError

\* datetime.strptime(s, fmt)
strptime(s, fmt, zones) == make_datetime(match_format(s, fmt, 1, 1, zones))

\* strftime('%Y-%m-%d'): the C library's %Y does not pad the year
strftime_Ymd(d) == str_int(d.year) \o <<"-">> \o pad2(d.month) \o <<"-">> \o pad2(d.day)
\* strftime('%H%M')
strftime_HM(d) == pad2(d.hour) \o pad2(d.minute)
\* strftime('%m%d%y')
strftime_mdy(d) == pad2(d.month) \o pad2(d.day) \o pad2(d.year % 100)
\* strftime('%-m/%-d/%Y')
strftime_week(d) == str_int(d.month) \o <<"/">> \o str_int(d.day) \o <<"/">> \o str_int(d.year)
\* strftime('%B %y')
strftime_month(d) == MonthNames[d.month] \o <<" ">> \o pad2(d.year % 100)

(***************************************************************************)
(* process_csv: the per-row computations                                   *)
(***************************************************************************)

\* One row of csv.DictReader: the cells of a line keyed by the header; a line
\* shorter than the header leaves the remaining keys at restval, None.
DictReader(fieldnames, line) ==
    [name \in Range(fieldnames) |->
        LET k == CHOOSE j \in 1..Len(fieldnames) : fieldnames[j] = name
        IN  IF k <= Len(line) THEN line[k] ELSE None]

\* row.get(key, '')
row_get(row, key) == IF key \in DOMAIN row THEN row[key] ELSE << >>

\* A variant of client_name_lookup: row.get('Client Name', '') in place of row['Client Name']
client_name_default(row) ==
    [exception |-> "", value |-> IF "Client Name" \in DOMAIN row THEN row["Client Name"] ELSE << >>]

\* row['Client Name'], line 92: KeyError when the column is absent
client_name_lookup(row) ==
    IF "Client Name" \in DOMAIN row
    THEN [exception |-> "", value |-> row["Client Name"]]
    ELSE [exception |-> "KeyError", value |-> None]

\* [item.strip() for item in parts]
strip_each(parts) == [k \in 1..Len(parts) |-> strip(parts[k])]

\* [item.strip() for item in s.split(',')]
split_and_strip(s) == strip_each(split(s, <<",">>))

\* A variant of split_client_names: the names are not stripped
split_client_names_unstripped(client_name) == split(client_name, <<",">>)

\* client_names, line 92
split_client_names(client_name) == split_and_strip(client_name)

\* values padded with '' or cut to num_clients items, lines 101-104
resize(values, num_clients) ==
    IF Len(values) < num_clients
    THEN values \o [k \in 1..(num_clients - Len(values)) |-> << >>]
    ELSE IF Len(values) > num_clients
    THEN SubSeq(values, 1, num_clients)
    ELSE values

\* A variant of get_field_values: the items are not stripped
get_field_values_unstripped(field_value, num_clients) ==
    resize(IF strip(field_value) # << >> THEN split(field_value, <<",">>) ELSE << >>,
           num_clients)

\* get_field_values, lines 95-105, for a field_value that is a str
get_field_values(field_value, num_clients) ==
    resize(IF strip(field_value) # << >> THEN split_and_strip(field_value) ELSE << >>,
           num_clients)

\* normalized_original_appointment_type, line 113
normalize_appointment_type(original_appointment_type) ==
    join(<<" ">>, split_ws(strip(original_appointment_type)))

\* words[-1]
last(words) == words[Len(words)]

\* A variant of drop_last_two: words[:-1]
drop_last_one(words) == SubSeq(words, 1, Len(words) - 1)

\* words[:-2]
drop_last_two(words) == SubSeq(words, 1, Len(words) - 2)

\* appointment_type, lines 116-122
clean_appointment_type(normalized) ==
    IF contains(normalized, <<" ","-"," ">>)
    THEN split(normalized, <<" ","-"," ">>)[1]
    ELSE IF contains(normalized, <<" "," ">>)
    THEN split(normalized, <<" "," ">>)[1]
    ELSE IF /\ contains(normalized, <<" ">>)
            /\ endswith(last(split(normalized, <<" ">>)), <<"m","i","n","u","t","e","s">>)
    THEN join(<<" ">>, drop_last_two(split(normalized, <<" ">>)))
    ELSE normalized

\* The names '%Z' accepts: utc, gmt and the two names of time.tzname
zone_names(tzname) == {<<"u","t","c">>, <<"g","m","t">>} \cup {lower(tzname[1]), lower(tzname[2])}

\* The four strftime calls of lines 132-135 and 140-143
date_fields(date_time_obj) ==
    [date_only |-> strftime_Ymd(date_time_obj), date_for_id |-> strftime_mdy(date_time_obj),
     time_for_id |-> strftime_HM(date_time_obj)]

no_date_fields == [date_only |-> << >>, date_for_id |-> << >>, time_for_id |-> << >>]

\* A variant of drop_last_four: the string is parsed whole
drop_nothing(s) == s

\* original_date_time[:-4]
drop_last_four(s) == Slice(s, 0, IF Len(s) > 4 THEN Len(s) - 4 ELSE 0)

\* The inner try of lines 138-145
second_attempt(second) == IF second.ok THEN date_fields(second) ELSE no_date_fields

\* The outer try of lines 129-145
first_attempt(first, original_date_time) ==
    IF first.ok THEN date_fields(first)
    ELSE second_attempt(strptime(drop_last_four(original_date_time), FormatNoZone, {}))

\* date_only, date_for_id, time_for_id, lines 125-145
extract_date_time(original_date_time, tzname) ==
    IF original_date_time = None \/ original_date_time = << >>
    THEN no_date_fields
    ELSE first_attempt(strptime(original_date_time, FormatWithZone, zone_names(tzname)),
                       original_date_time)

\* week_start, line 152
week_start_of(date_obj) ==
    fromordinal(toordinal(date_obj.year, date_obj.month, date_obj.day)
                - weekday(date_obj.year, date_obj.month, date_obj.day))

\* The try of lines 150-156
week_and_month_of(date_obj) ==
    IF date_obj.ok
    THEN [week_str |-> strftime_week(week_start_of(date_obj)),
          month_str |-> strftime_month(date_obj)]
    ELSE [week_str |-> << >>, month_str |-> << >>]

\* week_str, month_str, lines 148-156
week_and_month(date_only) ==
    IF date_only = << >> THEN [week_str |-> << >>, month_str |-> << >>]
    ELSE week_and_month_of(strptime(date_only, FormatDate, {}))

\* ''.join(word[0].upper() for word in words)
RECURSIVE initials(_)
initials(words) ==
    IF words = << >> THEN << >> ELSE <<UpperChar(words[1][1])>> \o initials(Tail(words))

\* abbreviate, lines 159-164
abbreviate(text) ==
    IF text = None \/ text = << >> THEN << >> ELSE initials(split_ws(strip(text)))

\* The exception lines 92-167 raise on a row, "" when they complete
row_exception(row) ==
    IF client_name_lookup(row).exception # "" THEN client_name_lookup(row).exception
    ELSE IF client_name_lookup(row).value = None THEN "AttributeError"
    ELSE IF \E f \in {"Unique ID", "Group Attendance", "Client's Diagnosis Codes"} :
                row_get(row, f) = None
    THEN "AttributeError"
    ELSE IF row_get(row, "Appointment Type") = None THEN "AttributeError"
    ELSE ""

\* The locals of lines 92, 113 and 125-145
first_locals(row, tzname) ==
    [client_names |-> split_client_names(client_name_lookup(row).value),
     normalized_original_appointment_type |->
         normalize_appointment_type(row_get(row, "Appointment Type"))]
    @@ extract_date_time(row_get(row, "Date"), tzname)

\* with those of lines 93-109, 116-122 and 148-156
more_locals(row, l) ==
    l @@ [num_clients |-> Len(l.client_names),
          unique_ids |-> get_field_values(row_get(row, "Unique ID"), Len(l.client_names)),
          group_attendance |->
              get_field_values(row_get(row, "Group Attendance"), Len(l.client_names)),
          diagnosis_codes |->
              get_field_values(row_get(row, "Client's Diagnosis Codes"), Len(l.client_names)),
          appointment_type |->
              clean_appointment_type(l.normalized_original_appointment_type)]
      @@ week_and_month(l.date_only)

\* with those of lines 166-167
all_locals(row, l) ==
    l @@ [appointment_type_abbr |-> abbreviate(l.appointment_type),
          provider_abbr |-> abbreviate(row_get(row, "Provider"))]

\* The locals of one iteration of the row loop, lines 92-167
row_locals(row, tzname) == all_locals(row, more_locals(row, first_locals(row, tzname)))

\* values[i] if i < len(values) else '' (i counts from 0)
item_or_empty(values, i) == IF i < Len(values) THEN values[i + 1] ELSE << >>

\* A variant of cpt_code_lookup: the cleaned type is the key
cpt_code_lookup_cleaned(locals) == dict_get(cpt_code_mapping, locals.appointment_type, << >>)

\* cpt_code, line 190
cpt_code_lookup(locals) ==
    dict_get(cpt_code_mapping, locals.normalized_original_appointment_type, << >>)

\* The value copied for an output column that has no branch of its own, lines 193-205
copied_value(row, locals, i, sh) ==
    LET csv_header == dict_get(header_mapping, sh, "")
    IN  IF csv_header = "" THEN << >>
        ELSE IF csv_header = "Client Name" THEN locals.client_names[i + 1]
        ELSE IF csv_header = "Unique ID" THEN item_or_empty(locals.unique_ids, i)
        ELSE IF csv_header = "Group Attendance" THEN item_or_empty(locals.group_attendance, i)
        ELSE row_get(row, csv_header)

\* new_row as built by the loop over spreadsheet_headers, lines 171-205
build_new_row(row, locals, i) ==
    LET unique_id == item_or_empty(locals.unique_ids, i)
    IN  [sh \in Range(spreadsheet_headers) |->
            IF sh \in {"Billed", "Family ID", "Billing Status"} THEN << >>
            ELSE IF sh = "Date Fixed" THEN locals.date_only
            ELSE IF sh = "Week" THEN locals.week_str
            ELSE IF sh = "Month" THEN locals.month_str
            ELSE IF sh = "Appointment ID"
            THEN locals.date_for_id \o <<"-">> \o locals.time_for_id \o <<"-">> \o unique_id
                 \o <<"-">> \o locals.appointment_type_abbr \o <<"-">> \o locals.provider_abbr
            ELSE IF sh = "CMS1500"
            THEN IF unique_id # << >>
                 THEN <<"h","t","t","p","s",":","/","/","s","e","c","u","r","e",".","g","e","t","h","e","a","l","t","h","i","e",".","c","o","m","/","c","m","s","1","5","0","0","s","/","n","e","w","/","?","p","a","t","i","e","n","t","_","i","d","=">> \o unique_id
                 ELSE << >>
            ELSE IF sh = "CPT Code" THEN cpt_code_lookup(locals)
            ELSE copied_value(row, locals, i, sh)]

\* Update Status for group appointments, lines 208-213
status_for(new_row, num_clients, ga) ==
    IF num_clients > 1 /\ ga = <<"y","e","s">>
    THEN [new_row EXCEPT !["Status"] = <<"O","c","c","u","r","r","e","d">>]
    ELSE IF num_clients > 1 /\ ga = <<"n","o">>
    THEN [new_row EXCEPT !["Status"] = <<"D","i","d"," ","n","o","t"," ","a","t","t","e","n","d">>]
    ELSE new_row
\* A variant of update_status: single-client rows are updated too
update_status_any_row(new_row, num_clients) ==
    status_for(new_row, 2, lower(strip(new_row["Group Attendance"])))

update_status(new_row, num_clients) ==
    status_for(new_row, num_clients, lower(strip(new_row["Group Attendance"])))

\* The exception lines 216-241 raise on new_row, "" when they complete
client_exception(new_row) ==
    IF new_row["Status"] = None THEN "AttributeError"
    ELSE IF new_row["Chart Note Written"] = None THEN "AttributeError"
    ELSE ""

\* missing_info, lines 216-239, for a new_row whose cells are strs
missing_info(new_row, num_clients, diagnosis_codes, i) ==
    LET attendance ==
            IF num_clients > 1 /\ strip(new_row["Group Attendance"]) = << >>
            THEN <<<<"A","t","t","e","n","d","a","n","c","e">>>> ELSE << >>
        status_value == strip(new_row["Status"])
        status_tag == IF status_value = << >> THEN <<<<"S","t","a","t","u","s">>>> ELSE << >>
        chart_note_written == lower(strip(new_row["Chart Note Written"]))
        note == IF chart_note_written = <<"n","o">> \/ chart_note_written = << >>
                THEN <<<<"N","o","t","e">>>> ELSE << >>
        diagnosis ==
            IF /\ new_row["CPT Code"] = <<"9","0","7","9","1">>
               /\ strip(new_row["Status"]) = <<"O","c","c","u","r","r","e","d">>
               /\ strip(item_or_empty(diagnosis_codes, i)) = << >>
            THEN <<<<"D","i","a","g","n","o","s","i","s">>>> ELSE << >>
    IN  attendance \o status_tag \o note \o diagnosis

\* A variant of set_missing_info: the tags are joined with ',' alone
set_missing_info_comma(new_row, tags) ==
    [new_row EXCEPT !["Missing Info"] = IF tags # << >> THEN join(<<",">>, tags) ELSE << >>]

\* new_row['Missing Info'], line 241
set_missing_info(new_row, tags) ==
    [new_row EXCEPT !["Missing Info"] = IF tags # << >> THEN join(<<","," ">>, tags) ELSE << >>]

\* The record csv.DictWriter.writerow writes: None is written as ''
writerow(new_row) ==
    [sh \in DOMAIN new_row |-> IF new_row[sh] = None THEN << >> ELSE new_row[sh]]

\* new_row after the Status update, lines 171-213
updated_row(row, locals, i) == update_status(build_new_row(row, locals, i), locals.num_clients)

\* new_row as written: Missing Info set, lines 216-243
finish_row(new_row, locals, i) ==
    writerow(set_missing_info(new_row,
        missing_info(new_row, locals.num_clients, locals.diagnosis_codes, i)))

\* new_row as written for client i of a row, lines 171-243
transformed_row(row, locals, i) == finish_row(updated_row(row, locals, i), locals, i)

(***************************************************************************)
(* The uploaded files the model draws from                                 *)
(***************************************************************************)

\* The largest number of lines of a file with several lines
MaxRows == 2

\* The header of a full export
FullHeader == <<
    "Date", "Client Name", "Appointment Type", "Provider", "Status", "Unique ID",
    "Group Attendance", "Chart Note Written", "Client's Diagnosis Codes", "Client Email" >>

\* Headers that lack columns: an empty file, no Client Name, nothing but
\* Client Name, and a few columns only
ShortHeaders == {
    << >>,
    <<"Date", "Appointment Type", "Provider", "Status", "Unique ID">>,
    <<"Client Name">>,
    <<"Client Name", "Provider", "Status", "Chart Note Written">>,
    <<"Client Name", "Group Attendance", "Chart Note Written", "Status">> }

\* A line's cells by column
Cells(date, name, type, provider, status, uid, ga, note, dx) ==
    [col \in Range(FullHeader) |->
        CASE col = "Date" -> date
          [] col = "Client Name" -> name
          [] col = "Appointment Type" -> type
          [] col = "Provider" -> provider
          [] col = "Status" -> status
          [] col = "Unique ID" -> uid
          [] col = "Group Attendance" -> ga
          [] col = "Chart Note Written" -> note
          [] col = "Client's Diagnosis Codes" -> dx
          [] OTHER -> <<"a","@","b",".","o","r","g">>]

\* The first k cells of a line under a header
Line(fieldnames, cells, k) == [j \in 1..k |-> cells[fieldnames[j]]]

ClientNameValues == {<<"A","l","i","c","e">>, <<"A","l","i","c","e",","," ","B","o","b">>, << >>, <<" ","A"," ",",","B",",","C">>}
UniqueIdValues == {<< >>, <<"1","1","1",",","2","2","2">>, <<"7"," ",","," ","8",","," ","9",",","1","0">>}
GroupAttendanceValues == {<< >>, <<"y","e","s",",","n","o">>, <<"Y","e","s"," ",","," ","N","O"," ",",","m","a","y","b","e">>, <<",","Y","E","S">>}
DiagnosisValues == {<< >>, <<"F","4","1",".","1">>, <<",","F","3","2">>}
StatusValues == {<< >>, <<"O","c","c","u","r","r","e","d">>, <<" ","O","c","c","u","r","r","e","d">>, <<"B","o","o","k","e","d">>, <<" "," ">>}
ChartNoteValues == {<< >>, <<"N","o"," ">>, <<"y","e","s">>}
ProviderValues == {<< >>, <<"J","a","n","e"," ","D","o","e">>, <<" ","d","r","."," ","j"," "," ","s","m","i","t","h"," ">>}
DateValues == {
    << >>, <<"2","0","2","4","-","0","3","-","0","7"," ","1","0",":","0","0",":","0","0"," ","E","S","T">>, <<"2","0","2","4","-","0","3","-","0","7"," ","1","0",":","0","0",":","0","0"," ","U","T","C">>, <<"n","o","t"," ","a"," ","d","a","t","e">>,
    <<"2","0","2","4","-","0","2","-","3","0"," ","1","0",":","0","0",":","0","0"," ","E","S","T">>, <<"2","0","2","4","-","0","3","-","0","7"," ","1","0",":","0","0",":","0","0">>, <<"2","0","2","4","-","1","2","-","3","1"," ","2","3",":","5","9",":","0","0"," ","P","S","T">>,
    <<"2","0","2","4","-","3","-","7"," ","9",":","0","5",":","0","0"," ","E","S","T">>, <<"0","9","9","9","-","0","3","-","0","7"," ","1","0",":","0","0",":","0","0"," ","U","T","C">>, <<"2","0","2","5","-","0","1","-","0","1"," "," ","0","8",":","3","0",":","5","9"," ","g","m","t">>,
    <<"2","0","2","4","-","0","3","-","0","7"," ","1","0",":","0","0",":","0","0"," ","E","S","T","X">> }
AppointmentTypeValues == {
    <<"I","n","d","i","v","i","d","u","a","l"," ","T","h","e","r","a","p","y"," ","S","e","s","s","i","o","n"," ","-"," ","4","5"," ","m","i","n","u","t","e","s">>, <<"E","v","a","l","u","a","t","i","o","n"," ","S","e","s","s","i","o","n">>,
    <<" ","E","v","a","l","u","a","t","i","o","n"," "," "," ","S","e","s","s","i","o","n"," ">>, <<"I","n","d","i","v","i","d","u","a","l"," ","T","h","e","r","a","p","y"," ","S","e","s","s","i","o","n"," ","3","0"," ","m","i","n","u","t","e","s">>,
    <<"I","n","d","i","v","i","d","u","a","l"," ","T","h","e","r","a","p","y"," ","S","e","s","s","i","o","n"," "," ","3","0"," ","m","i","n","u","t","e","s">>, <<"4","5","m","i","n","u","t","e","s">>,
    <<"M","e","n","t","o","r"," ","S","e","s","s","i","o","n"," ","-"," ","4","5"," ","m","i","n","u","t","e","s"," ","-"," ","l","a","t","e">>, << >>, <<"T","e","e","n","\t","G","r","o","u","p"," ","S","e","s","s","i","o","n">>,
    <<"Y","o","g","a"," ","6","0"," ","m","i","n","u","t","e","s">>, <<"x"," ","m","i","n","u","t","e","s">>, <<"I","n","d","i","v","i","d","u","a","l"," ","T","h","e","r","a","p","y"," ","S","e","s","s","i","o","n">> }

\* Lines that vary Client Name and the three per-client fields
PerClientCells ==
    { Cells(<<"2","0","2","4","-","0","3","-","0","7"," ","1","0",":","0","0",":","0","0"," ","E","S","T">>, name, type, <<"J","a","n","e"," ","D","o","e">>, <<"O","c","c","u","r","r","e","d">>, uid, ga,
            <<"y","e","s">>, dx) :
        name \in ClientNameValues, type \in {<<"E","v","a","l","u","a","t","i","o","n"," ","S","e","s","s","i","o","n">>, <<"P","a","r","e","n","t"," ","G","r","o","u","p">>},
        uid \in UniqueIdValues, ga \in GroupAttendanceValues, dx \in DiagnosisValues }

\* Lines that vary Group Attendance, Status, Chart Note Written and the diagnosis
StatusCells ==
    { Cells(<<"2","0","2","4","-","0","3","-","0","7"," ","1","0",":","0","0",":","0","0"," ","E","S","T">>, name, type, <<"J","a","n","e"," ","D","o","e">>, status, <<"1","1","1">>, ga,
            note, dx) :
        name \in {<<"A","l","i","c","e">>, <<"A","l","i","c","e",","," ","B","o","b">>},
        type \in {<<"E","v","a","l","u","a","t","i","o","n"," ","S","e","s","s","i","o","n">>, <<"P","a","r","e","n","t"," ","G","r","o","u","p">>},
        status \in StatusValues, ga \in GroupAttendanceValues, note \in ChartNoteValues,
        dx \in {<< >>, <<",","F","3","2">>} }

\* Lines that vary Date and Provider
DateCells ==
    { Cells(date, name, <<"E","v","a","l","u","a","t","i","o","n"," ","S","e","s","s","i","o","n">>, provider, <<"O","c","c","u","r","r","e","d">>, <<"1","1","1">>, <<"y","e","s",",","n","o">>,
            <<"y","e","s">>, << >>) :
        date \in DateValues, name \in {<<"A","l","i","c","e">>, <<"A","l","i","c","e",","," ","B","o","b">>},
        provider \in ProviderValues }

\* Lines that vary Appointment Type and Provider
TypeCells ==
    { Cells(<<"2","0","2","4","-","0","3","-","0","7"," ","1","0",":","0","0",":","0","0"," ","E","S","T">>, name, type, provider, <<"O","c","c","u","r","r","e","d">>, <<"1","1","1">>,
            <<"y","e","s",",","n","o">>, <<"y","e","s">>, << >>) :
        name \in {<<"A","l","i","c","e">>, <<"A","l","i","c","e",","," ","B","o","b">>}, type \in AppointmentTypeValues,
        provider \in ProviderValues }

\* The lines of the files with several lines: a single client, a group, an
\* empty Client Name, and lines that stop after the first or the third cell
SeveralLines ==
    { Line(FullHeader, c, Len(FullHeader)) : c \in {
        Cells(<<"2","0","2","4","-","0","3","-","0","7"," ","1","0",":","0","0",":","0","0"," ","E","S","T">>, <<"A","l","i","c","e">>, <<"E","v","a","l","u","a","t","i","o","n"," ","S","e","s","s","i","o","n">>, <<"J","a","n","e"," ","D","o","e">>,
              <<"O","c","c","u","r","r","e","d">>, <<"1","1","1">>, << >>, <<"y","e","s">>, << >>),
        Cells(<<"2","0","2","4","-","0","3","-","0","8"," ","1","1",":","3","0",":","0","0"," ","E","S","T">>, <<"B","o","b",","," ","C","y">>, <<"P","a","r","e","n","t"," ","G","r","o","u","p">>, <<"J","a","n","e"," ","D","o","e">>,
              << >>, <<"2","2","2">>, <<"y","e","s",",","n","o">>, <<"n","o">>, << >>),
        Cells(<< >>, << >>, << >>, << >>, << >>, << >>, << >>, << >>, << >>) } }
    \cup { <<<<"2","0","2","4","-","0","3","-","0","7"," ","1","0",":","0","0",":","0","0"," ","E","S","T">>>>,
           <<<<"2","0","2","4","-","0","3","-","0","7"," ","1","0",":","0","0",":","0","0"," ","E","S","T">>, <<"D","e","e">>, <<"P","a","r","e","n","t"," ","G","r","o","u","p">>>> }

RECURSIVE SeqsUpTo(_, _)
SeqsUpTo(S, n) ==
    IF n = 0 THEN {<< >>}
    ELSE LET shorter == SeqsUpTo(S, n - 1)
         IN  shorter \cup {Append(q, x) : q \in {q \in shorter : Len(q) = n - 1}, x \in S}

\* The uploaded files: a header and the lines under it
UploadedFiles ==
    { [fieldnames |-> FullHeader, lines |-> <<Line(FullHeader, c, Len(FullHeader))>>] :
        c \in PerClientCells \cup StatusCells \cup DateCells \cup TypeCells }
    \cup { [fieldnames |-> FullHeader, lines |-> ls] : ls \in SeqsUpTo(SeveralLines, MaxRows) }
    \cup UNION { { [fieldnames |-> h, lines |-> <<Line(h, c, k)>>] :
                     k \in 1..Len(h),
                     c \in { Cells(<<"2","0","2","4","-","0","3","-","0","7"," ","1","0",":","0","0",":","0","0"," ","E","S","T">>, <<"A","l","i","c","e",","," ","B","o","b">>,
                                   <<"E","v","a","l","u","a","t","i","o","n"," ","S","e","s","s","i","o","n">>, <<"J","a","n","e"," ","D","o","e">>, status, <<"1","1","1">>,
                                   ga, <<"y","e","s">>, << >>) :
                             status \in {<< >>, <<"O","c","c","u","r","r","e","d">>}, ga \in {<< >>, <<"y","e","s",",","n","o">>} } }
                 : h \in ShortHeaders \cup {FullHeader} }
    \cup { [fieldnames |-> << >>, lines |-> << >>] }

\* time.tzname on the hosts considered
TzNames == { <<<<"U","T","C">>, <<"U","T","C">>>>, <<<<"E","S","T">>, <<"E","D","T">>>> }

(***************************************************************************)
(* The state                                                               *)
(***************************************************************************)

VARIABLES
    tzname,          \* time.tzname of the host
    uploaded_file,   \* st.file_uploader's value: << >> (None) or <<file>>
    pc,              \* where main_app and process_csv stand
    reader_pos,      \* the number of lines reader has yielded
    row,             \* the row of the current iteration
    locals,          \* the locals lines 92-167 computed for row
    i,               \* the client loop's index
    output_buffer,   \* the header and the records written so far
    output_csv_str,  \* process_csv's return value: << >> (not returned) or <<text>>
    download_data,   \* the data of st.download_button: << >> (no button) or <<text>>
    exception        \* the exception that ended the run, "" when none

vars == <<tzname, uploaded_file, pc, reader_pos, row, locals, i, output_buffer,
          output_csv_str, download_data, exception>>

NoLocals == [client_names |-> << >>, num_clients |-> 0]

Init ==
    /\ tzname \in TzNames
    /\ uploaded_file = << >>
    /\ pc = "idle"
    /\ reader_pos = 0
    /\ row = << >>
    /\ locals = NoLocals
    /\ i = 0
    /\ output_buffer = [header |-> << >>, records |-> << >>]
    /\ output_csv_str = << >>
    /\ download_data = << >>
    /\ exception = ""

\* The user uploads a file, line 265
Upload ==
    /\ pc = "idle"
    /\ \E file \in UploadedFiles : uploaded_file' = <<file>>
    /\ pc' = "main"
    /\ UNCHANGED <<tzname, reader_pos, row, locals, i, output_buffer, output_csv_str,
                   download_data, exception>>

\* reader.fieldnames, line 78: None for a file without a header line
fieldnames_of(file) == IF file.fieldnames = << >> THEN None ELSE file.fieldnames

\* main_app calls process_csv, line 274; the reader and the writer are made
\* and the header is written, lines 77-86
Begin ==
    /\ pc = "main"
    /\ uploaded_file # << >>
    /\ fieldnames_of(uploaded_file[1]) # None
    /\ output_buffer' = [header |-> spreadsheet_headers, records |-> << >>]
    /\ pc' = "rows"
    /\ UNCHANGED <<tzname, uploaded_file, reader_pos, row, locals, i, output_csv_str,
                   download_data, exception>>

\* `c in fieldnames`, line 81, raises TypeError when fieldnames is None
BeginRaises ==
    /\ pc = "main"
    /\ uploaded_file # << >>
    /\ fieldnames_of(uploaded_file[1]) = None
    /\ exception' = "TypeError"
    /\ pc' = "raised"
    /\ UNCHANGED <<tzname, uploaded_file, reader_pos, row, locals, i, output_buffer,
                   output_csv_str, download_data>>

\* The row the reader yields next
next_row == DictReader(uploaded_file[1].fieldnames, uploaded_file[1].lines[reader_pos + 1])

\* One iteration of `for row in reader` up to the client loop, lines 88-167
ReadRow ==
    /\ pc = "rows"
    /\ reader_pos < Len(uploaded_file[1].lines)
    /\ row' = next_row
    /\ row_exception(row') = ""
    /\ locals' = row_locals(row', tzname)
    /\ reader_pos' = reader_pos + 1
    /\ i' = 0
    /\ pc' = "clients"
    /\ UNCHANGED <<tzname, uploaded_file, output_buffer, output_csv_str, download_data,
                   exception>>

\* Lines 92-113 raise: the exception leaves process_csv and main_app
ReadRowRaises ==
    /\ pc = "rows"
    /\ reader_pos < Len(uploaded_file[1].lines)
    /\ row' = next_row
    /\ row_exception(row') # ""
    /\ reader_pos' = reader_pos + 1
    /\ exception' = row_exception(row')
    /\ pc' = "raised"
    /\ UNCHANGED <<tzname, uploaded_file, locals, i, output_buffer, output_csv_str,
                   download_data>>

\* One iteration of `for i in range(num_clients)`, lines 170-243
WriteClient ==
    /\ pc = "clients"
    /\ i < locals.num_clients
    /\ client_exception(updated_row(row, locals, i)) = ""
    /\ output_buffer' = [output_buffer EXCEPT
                            !.records = Append(@, transformed_row(row, locals, i))]
    /\ i' = i + 1
    /\ pc' = IF i + 1 < locals.num_clients THEN "clients" ELSE "rows"
    /\ UNCHANGED <<tzname, uploaded_file, reader_pos, row, locals, output_csv_str,
                   download_data, exception>>

\* Lines 224-229 raise: the exception leaves process_csv and main_app
WriteClientRaises ==
    /\ pc = "clients"
    /\ i < locals.num_clients
    /\ client_exception(updated_row(row, locals, i)) # ""
    /\ exception' = client_exception(updated_row(row, locals, i))
    /\ pc' = "raised"
    /\ UNCHANGED <<tzname, uploaded_file, reader_pos, row, locals, i, output_buffer,
                   output_csv_str, download_data>>

\* The reader is exhausted: process_csv returns the buffer's text, lines 245, 274
Return ==
    /\ pc = "rows"
    /\ reader_pos = Len(uploaded_file[1].lines)
    /\ output_csv_str' = <<output_buffer>>
    /\ pc' = "returned"
    /\ UNCHANGED <<tzname, uploaded_file, reader_pos, row, locals, i, output_buffer,
                   download_data, exception>>

\* st.success and st.download_button, lines 276-284
OfferDownload ==
    /\ pc = "returned"
    /\ download_data' = output_csv_str
    /\ pc' = "offered"
    /\ UNCHANGED <<tzname, uploaded_file, reader_pos, row, locals, i, output_buffer,
                   output_csv_str, exception>>

Next ==
    \/ Upload
    \/ Begin
    \/ BeginRaises
    \/ ReadRow
    \/ ReadRowRaises
    \/ WriteClient
    \/ WriteClientRaises
    \/ Return
    \/ OfferDownload

Spec == Init /\ [][Next]_vars


(***************************************************************************)
(* The properties                                                          *)
(*                                                                         *)
(* What a property expects of a record is stated from the input cells,     *)
(* with the comma positions of a cell rather than with the code's split.   *)
(***************************************************************************)

\* A record has been written for the current row: the last record of the
\* buffer is that of client i - 1 of row
Written == exception = "" /\ i > 0

LastRecord == output_buffer.records[Len(output_buffer.records)]

\* The positions of the commas of s, and the k-th of them (0 before the
\* first, Len(s) + 1 after the last)
Commas(s) == {p \in 1..Len(s) : s[p] = ","}
CommaAt(s, k) ==
    IF k = 0 THEN 0
    ELSE IF k > Cardinality(Commas(s)) THEN Len(s) + 1
    ELSE CHOOSE p \in Commas(s) : Cardinality({q \in Commas(s) : q < p}) = k - 1

\* The k-th comma-separated entry of s, trimmed (k from 1)
Entry(s, k) == strip(SubSeq(s, CommaAt(s, k - 1) + 1, CommaAt(s, k) - 1))
EntryCount(s) == Cardinality(Commas(s)) + 1

\* The entries of a per-client field: none when the cell is blank
FieldEntryCount(s) == IF \A p \in 1..Len(s) : IsSpace(s[p]) THEN 0 ELSE EntryCount(s)
\* The value of a per-client field for client k (k from 0)
FieldEntry(s, k) == IF k < FieldEntryCount(s) THEN Entry(s, k + 1) ELSE << >>

\* A cell of a line of the file, '' for an absent column; None past the line's end
CellOf(file, n, col) ==
    IF \E j \in 1..Len(file.fieldnames) : file.fieldnames[j] = col
    THEN IF (CHOOSE j \in 1..Len(file.fieldnames) : file.fieldnames[j] = col)
                <= Len(file.lines[n])
         THEN file.lines[n][CHOOSE j \in 1..Len(file.fieldnames) : file.fieldnames[j] = col]
         ELSE None
    ELSE << >>

\* Line n of the file has no Client Name value
LacksClientName(file, n) ==
    \/ \A j \in 1..Len(file.fieldnames) : file.fieldnames[j] # "Client Name"
    \/ CellOf(file, n, "Client Name") = None

\* The Name values the first n lines of the file stand for, line by line
RECURSIVE ExpectedNames(_, _)
ExpectedNames(file, n) ==
    IF n = 0 THEN << >>
    ELSE ExpectedNames(file, n - 1)
         \o [k \in 1..EntryCount(CellOf(file, n, "Client Name")) |->
                Entry(CellOf(file, n, "Client Name"), k)]

NameColumn(records) == [k \in 1..Len(records) |-> records[k]["Name"]]

\* The Name values of the first k clients of line n
FirstNames(file, n, k) == [j \in 1..k |-> Entry(CellOf(file, n, "Client Name"), j)]

\* C1: the Name column of the data rows is the concatenation, in line order, of
\* each line's comma-separated trimmed client names, one record per name and at
\* least one per line: of the lines done and the first i names of the line in
\* hand while the rows are written, and of all lines in the text returned.
C1_RowExpansion ==
    /\ (exception = "" /\ pc = "clients") =>
           NameColumn(output_buffer.records)
               = ExpectedNames(uploaded_file[1], reader_pos - 1)
                 \o FirstNames(uploaded_file[1], reader_pos, i)
    /\ (exception = "" /\ pc = "rows") =>
           NameColumn(output_buffer.records) = ExpectedNames(uploaded_file[1], reader_pos)
    /\ output_csv_str # << >> =>
           /\ output_csv_str[1].header = spreadsheet_headers
           /\ NameColumn(output_csv_str[1].records)
                  = ExpectedNames(uploaded_file[1], Len(uploaded_file[1].lines))

\* A file of two lines, a group of two and an empty Client Name, returned as
\* three records
C1_Witness ==
    /\ pc = "offered"
    /\ Len(uploaded_file[1].lines) = 2
    /\ CellOf(uploaded_file[1], 1, "Client Name") = <<"B","o","b",","," ","C","y">>
    /\ CellOf(uploaded_file[1], 2, "Client Name") = << >>
    /\ NameColumn(download_data[1].records) = <<<<"B","o","b">>, <<"C","y">>, << >>>>

\* C2: the padding law. The record of client k holds the k-th trimmed entry of
\* Unique ID and of Group Attendance, the diagnosis check uses the k-th entry of
\* Client's Diagnosis Codes, each '' from the number of entries on (a blank
\* cell has none), and no list keeps an entry past the number of clients.
C2_PaddingLaw ==
    Written =>
        /\ i <= EntryCount(row["Client Name"])
        /\ LastRecord["Unique ID"] = FieldEntry(row_get(row, "Unique ID"), i - 1)
        /\ LastRecord["Group Attendance"] = FieldEntry(row_get(row, "Group Attendance"), i - 1)
        /\ locals.diagnosis_codes[i]
               = FieldEntry(row_get(row, "Client's Diagnosis Codes"), i - 1)
        /\ Len(locals.unique_ids) = EntryCount(row["Client Name"])
        /\ Len(locals.group_attendance) = EntryCount(row["Client Name"])
        /\ Len(locals.diagnosis_codes) = EntryCount(row["Client Name"])

\* The third client of a row with four Unique IDs (cut) and two Group
\* Attendance entries (padded)
C2_Witness ==
    /\ Written
    /\ i = 3
    /\ row_get(row, "Unique ID") = <<"7"," ",","," ","8",","," ","9",",","1","0">>
    /\ row_get(row, "Group Attendance") = <<"y","e","s",",","n","o">>
    /\ LastRecord["Unique ID"] = <<"9">>
    /\ LastRecord["Group Attendance"] = << >>

\* The Missing Info cell of a record, as its tags
TagsOf(record) ==
    IF record["Missing Info"] = << >> THEN << >> ELSE split(record["Missing Info"], <<","," ">>)

\* C3: in a group row a Group Attendance of yes or no (trimmed, any case) sets
\* Status to Occurred or Did not attend and Missing Info has no Status tag;
\* any other Group Attendance, and every single-client row, keeps the input Status.
C3_StatusOverride ==
    Written =>
        IF EntryCount(row["Client Name"]) > 1
           /\ lower(strip(LastRecord["Group Attendance"])) = <<"y","e","s">>
        THEN LastRecord["Status"] = <<"O","c","c","u","r","r","e","d">>
             /\ \A k \in 1..Len(TagsOf(LastRecord)) : TagsOf(LastRecord)[k] # <<"S","t","a","t","u","s">>
        ELSE IF EntryCount(row["Client Name"]) > 1
                /\ lower(strip(LastRecord["Group Attendance"])) = <<"n","o">>
        THEN LastRecord["Status"] = <<"D","i","d"," ","n","o","t"," ","a","t","t","e","n","d">>
             /\ \A k \in 1..Len(TagsOf(LastRecord)) : TagsOf(LastRecord)[k] # <<"S","t","a","t","u","s">>
        ELSE LastRecord["Status"] = row_get(row, "Status")

\* A group record whose blank input Status was overridden by "NO"
C3_Witness ==
    /\ Written
    /\ EntryCount(row["Client Name"]) > 1
    /\ row_get(row, "Status") = << >>
    /\ LastRecord["Group Attendance"] = <<"N","O">>
    /\ LastRecord["Status"] = <<"D","i","d"," ","n","o","t"," ","a","t","t","e","n","d">>

\* The cleaned appointment type of the locals
CleanedType == locals.appointment_type

\* C4: the Appointment Type column of every record holds the cleaned
\* appointment type.
C4_CleanedTypeInOutput == Written => LastRecord["Appointment Type"] = CleanedType

\* s with every whitespace run collapsed to one space and no outer whitespace
RECURSIVE Collapse(_)
Collapse(s) ==
    IF s = << >> THEN << >>
    ELSE IF IsSpace(s[1])
    THEN IF Len(s) = 1 \/ IsSpace(s[2]) THEN Collapse(Tail(s))
         ELSE <<" ">> \o Collapse(Tail(s))
    ELSE <<s[1]>> \o Collapse(Tail(s))
Normalized(s) ==
    IF Collapse(s) # << >> /\ Collapse(s)[1] = " " THEN Tail(Collapse(s)) ELSE Collapse(s)

TagHolds(tag, status) ==
    CASE tag = <<"A","t","t","e","n","d","a","n","c","e">> ->
            EntryCount(row["Client Name"]) > 1 /\ strip(LastRecord["Group Attendance"]) = << >>
      [] tag = <<"S","t","a","t","u","s">> -> strip(LastRecord["Status"]) = << >>
      [] tag = <<"N","o","t","e">> ->
            lower(strip(LastRecord["Chart Note Written"])) \in {<<"n","o">>, << >>}
      [] tag = <<"D","i","a","g","n","o","s","i","s">> ->
            /\ LastRecord["CPT Code"] = <<"9","0","7","9","1">>
            /\ status = <<"O","c","c","u","r","r","e","d">>
            /\ strip(FieldEntry(row_get(row, "Client's Diagnosis Codes"), i - 1)) = << >>

TagOrder == <<<<"A","t","t","e","n","d","a","n","c","e">>, <<"S","t","a","t","u","s">>, <<"N","o","t","e">>, <<"D","i","a","g","n","o","s","i","s">>>>

\* Missing Info lists, in TagOrder, exactly the tags whose condition holds
MissingInfoIs(status) ==
    /\ \A k \in 1..Len(TagOrder) :
           (\E j \in 1..Len(TagsOf(LastRecord)) : TagsOf(LastRecord)[j] = TagOrder[k])
               <=> TagHolds(TagOrder[k], status)
    /\ TagsOf(LastRecord)
           = SelectSeq(TagOrder,
                 LAMBDA t : \E j \in 1..Len(TagsOf(LastRecord)) : TagsOf(LastRecord)[j] = t)

\* C6 as claimed: Missing Info is the ", "-joined list, in the order Attendance,
\* Status, Note, Diagnosis, of the tags whose condition holds, Diagnosis iff
\* CPT Code is 90791, the final Status is "Occurred" and the diagnosis is blank.
C6_MissingInfoAsClaimed == Written => MissingInfoIs(LastRecord["Status"])

\* C6 as amended: the same, Diagnosis comparing the final Status after trimming.
C6_MissingInfoTrimmedStatus == Written => MissingInfoIs(strip(LastRecord["Status"]))

\* A group record with three tags, its Status Occurred only after trimming
C6_Witness ==
    /\ Written
    /\ LastRecord["Status"] = <<" ","O","c","c","u","r","r","e","d">>
    /\ LastRecord["Missing Info"] = <<"A","t","t","e","n","d","a","n","c","e",","," ","N","o","t","e",","," ","D","i","a","g","n","o","s","i","s">>

\* C7: a row that has a Client Name value is transformed without raising,
\* whatever other fields it misses.
C7_MissingFieldsDefault ==
    (pc = "raised" /\ reader_pos > 0) => LacksClientName(uploaded_file[1], reader_pos)

\* Both parse attempts of lines 131 and 139 fail on s
FailsBothParses(s) ==
    /\ ~strptime(s, FormatWithZone, zone_names(tzname)).ok
    /\ ~strptime(SubSeq(s, 1, Len(s) - 4), FormatNoZone, {}).ok

\* C8: a Date that is empty or fails both parse attempts raises nothing and
\* leaves Date Fixed, Week and Month '' and the Appointment ID as
\* "--{unique_id}-{apptTypeAbbr}-{providerAbbr}"; Week and Month are '' whenever
\* Date Fixed is.
C8_UnparseableDate ==
    /\ exception # "ValueError"
    /\ Written =>
        /\ (row_get(row, "Date") = << >> \/ FailsBothParses(row_get(row, "Date"))) =>
               /\ LastRecord["Date Fixed"] = << >>
               /\ LastRecord["Week"] = << >>
               /\ LastRecord["Month"] = << >>
               /\ LastRecord["Appointment ID"]
                      = <<"-", "-">> \o LastRecord["Unique ID"] \o <<"-">>
                        \o locals.appointment_type_abbr \o <<"-">> \o locals.provider_abbr
        /\ LastRecord["Date Fixed"] = << >> =>
               LastRecord["Week"] = << >> /\ LastRecord["Month"] = << >>

\* A record of a row whose Date has no zone token: both attempts fail
C8_Witness ==
    /\ Written
    /\ row_get(row, "Date") = <<"2","0","2","4","-","0","3","-","0","7"," ","1","0",":","0","0",":","0","0">>
    /\ LastRecord["Date Fixed"] = << >>
    /\ LastRecord["Appointment ID"] = <<"-","-","1","1","1","-","E","S","-","J","D">>

\* The tokens of s between single spaces
SpaceTokens(s) == split(s, <<" ">>)

\* The cleaning rules in their order; rule (c) applies to a type of at least
\* least tokens
CleanedBy(n, least) ==
    IF find(n, <<" ","-"," ">>) # 0 THEN SubSeq(n, 1, find(n, <<" ","-"," ">>) - 1)
    ELSE IF find(n, <<" "," ">>) # 0 THEN SubSeq(n, 1, find(n, <<" "," ">>) - 1)
    ELSE IF /\ Len(SpaceTokens(n)) >= least
            /\ endswith(SpaceTokens(n)[Len(SpaceTokens(n))], <<"m","i","n","u","t","e","s">>)
    THEN join(<<" ">>, SubSeq(SpaceTokens(n), 1, Len(SpaceTokens(n)) - 2))
    ELSE n

\* The upper-cased first characters of the whitespace-separated tokens of s
Initials(s) ==
    [k \in 1..Len(split_ws(s)) |-> UpperChar(split_ws(s)[k][1])]

\* The row's locals are computed
RowRead == pc = "clients" \/ Written

\* The cleaned type is CleanedBy the rules and the abbreviation segment of the
\* Appointment ID is its initials
CleanedAs(least) ==
    /\ RowRead =>
           /\ CleanedType = CleanedBy(Normalized(row_get(row, "Appointment Type")), least)
           /\ locals.appointment_type_abbr = Initials(CleanedType)
    /\ Written =>
           LastRecord["Appointment ID"]
               = locals.date_for_id \o <<"-">> \o locals.time_for_id \o <<"-">>
                 \o LastRecord["Unique ID"] \o <<"-">> \o Initials(CleanedType) \o <<"-">>
                 \o locals.provider_abbr

\* C9 as claimed: (a) before the first " - ", (b) else before the first double
\* space, (c) else, the last token ending with "minutes", without the last two
\* tokens, a single such token cleaning to '', (d) else unchanged; the
\* abbreviation segment is the initials of the cleaned type.
C9_CleaningAsClaimed == CleanedAs(1)

\* C9 as amended: rule (c) applies only to a type of two tokens or more; a
\* single token ending with "minutes" is left unchanged.
C9_CleaningTwoTokens == CleanedAs(2)

\* A single token ending with "minutes", left unchanged and abbreviated "4"
C9_Witness ==
    /\ Written
    /\ row_get(row, "Appointment Type") = <<"4","5","m","i","n","u","t","e","s">>
    /\ CleanedType = <<"4","5","m","i","n","u","t","e","s">>
    /\ locals.appointment_type_abbr = <<"4">>

\* C10: a file with a line that has no Client Name value is never returned
\* nor offered for download, in whole or in part: the run never reads past
\* that line, and having read it the run has raised the line's exception.
C10_NoPartialOutput ==
    uploaded_file # << >> =>
        \A n \in 1..Len(uploaded_file[1].lines) :
            LacksClientName(uploaded_file[1], n) =>
                /\ output_csv_str = << >>
                /\ download_data = << >>
                /\ pc \notin {"returned", "offered"}
                /\ reader_pos <= n
                /\ reader_pos = n =>
                       /\ pc = "raised"
                       /\ exception \in {"KeyError", "AttributeError"}

\* The run raised on a second line without Client Name after the first line's
\* record was written
C10_Witness ==
    /\ pc = "raised"
    /\ reader_pos = 2
    /\ LacksClientName(uploaded_file[1], 2)
    /\ Len(output_buffer.records) >= 1
    /\ output_csv_str = << >>
    /\ download_data = << >>

====
